---- MODULE Spec2Model ----
(***************************************************************************)
(* Secret Closet API: the storefront backend of src/main.py and its other  *)
(* revision src/backend/main.py (with src/backend/schemas.py and           *)
(* src/backend/database.py), as a state machine over the two MongoDB       *)
(* collections `product` and `order`.                                      *)
(*                                                                         *)
(* Values of documents and JSON bodies are tagged tuples:                  *)
(*   <<"none">>            None                                            *)
(*   <<"num", n>>          int / float (money in the unit of the inputs)   *)
(*   <<"str", s>>          a str                                           *)
(*   <<"str","hex", cs>>   the str of an ObjectId: 24 hex characters       *)
(*   <<"str","isoformat", t>>   datetime.isoformat() of the instant t      *)
(*   <<"datetime", t>>     a datetime                                      *)
(*   <<"oid", n>>          the n-th ObjectId the database generated        *)
(*   <<"dict", f>>         a nested dict, f a function on its keys         *)
(*   <<"list", s>>         a list                                          *)
(* A top-level document or body is the function on its keys.               *)
(***************************************************************************)
EXTENDS Integers, Sequences, FiniteSets, TLC

VARIABLES app, product, order, nextOid, now, writes, resp, scan, phase, seeder

vars == <<app, product, order, nextOid, now, writes, resp, scan, phase, seeder>>

(***************************************************************************)
(* Bounds                                                                  *)
(***************************************************************************)
MaxWrites == 2     \* requests that change the database in one behaviour
MaxClock == 1      \* instants the clock can reach
MaxPage == 2       \* largest page number a listing request asks for
MaxSeedCalls == 2  \* administrative seed calls that run at the same time

(***************************************************************************)
(* Values                                                                  *)
(***************************************************************************)
None == <<"none">>
Num(n) == <<"num", n>>
Str(s) == <<"str", s>>
Datetime(t) == <<"datetime", t>>
Dict(f) == <<"dict", f>>
List(s) == <<"list", s>>
Oid(n) == <<"oid", n>>

isNone(v) == v[1] = "none"
isNum(v) == v[1] = "num"
isStr(v) == v[1] = "str"
isDatetime(v) == v[1] = "datetime"
isDict(v) == v[1] = "dict"
isList(v) == v[1] = "list"

EmptyDoc == [k \in {} |-> None]

\* dict.update / {**d, **e}
DictUpdate(d, e) ==
    [k \in DOMAIN d \cup DOMAIN e |-> IF k \in DOMAIN e THEN e[k] ELSE d[k]]

\* dict.get(k, default)
DictGet(d, k, default) == IF k \in DOMAIN d THEN d[k] ELSE default

\* datetime.isoformat()
isoformat(v) == <<"str", "isoformat", v[2]>>

(***************************************************************************)
(* bson.ObjectId and its 24-character hexadecimal string                   *)
(***************************************************************************)
OidLen == 24
HexChars == <<"0", "1", "2", "3", "4", "5", "6", "7",
              "8", "9", "a", "b", "c", "d", "e", "f">>

HexDigit(c) == (CHOOSE i \in 1..16 : HexChars[i] = c) - 1

RECURSIVE HexValue(_)
HexValue(cs) ==
    IF cs = <<>> THEN 0
    ELSE 16 * HexValue(SubSeq(cs, 1, Len(cs) - 1)) + HexDigit(cs[Len(cs)])

\* str(ObjectId): 24 hexadecimal characters
OidHex(n) ==
    [i \in 1..OidLen |->
        IF i = OidLen THEN HexChars[(n % 16) + 1]
        ELSE IF i = OidLen - 1 THEN HexChars[((n \div 16) % 16) + 1]
        ELSE "0"]

StrOid(v) == <<"str", "hex", OidHex(v[2])>>

\* ObjectId(id_str) accepts exactly the 24-character hexadecimal strings
ObjectIdValid(cs) ==
    /\ Len(cs) = OidLen
    /\ \A i \in 1..Len(cs) : \E j \in 1..16 : HexChars[j] = cs[i]

ObjectId(cs) == Oid(HexValue(cs))

\* to_object_id: the parsed identifier, or the HTTPException(400)
to_object_id(cs) ==
    IF ObjectIdValid(cs) THEN [ok |-> TRUE, oid |-> ObjectId(cs)]
    ELSE [ok |-> FALSE, oid |-> None]

(***************************************************************************)
(* Response shaper of src/main.py                                          *)
(***************************************************************************)
RECURSIVE serialize_doc(_)
serialize_item(item) ==
    IF isDict(item) THEN Dict(serialize_doc(item[2]))
    ELSE IF isDatetime(item) THEN isoformat(item)
    ELSE item

serialize_value(v) ==
    IF isDatetime(v) THEN isoformat(v)
    ELSE IF isDict(v) THEN Dict(serialize_doc(v[2]))
    ELSE IF isList(v) THEN List([i \in 1..Len(v[2]) |-> serialize_item(v[2][i])])
    ELSE v

serialize_doc(doc) ==
    IF DOMAIN doc = {} THEN doc
    ELSE LET popped == [k \in (DOMAIN doc \ {"_id"}) \cup {"id"} |->
                           IF k = "id"
                           THEN IF "_id" \in DOMAIN doc
                                THEN IF doc["_id"][1] = "oid" THEN StrOid(doc["_id"])
                                     ELSE doc["_id"]
                                ELSE None
                           ELSE doc[k]]
         IN [k \in DOMAIN popped |-> serialize_value(popped[k])]

(***************************************************************************)
(* Schemas of src/main.py (pydantic: a missing field takes its default, a  *)
(* field the model does not declare is ignored, a violated constraint is   *)
(* a 422 before the handler runs).  Of ProductIn the model keeps name,     *)
(* brand, price, category, stock, tags and sale_price; description, specs, *)
(* images, options and is_featured are further optional fields that are    *)
(* defaulted and stored the same way.                                      *)
(***************************************************************************)
ProductInRequired == {"name", "price", "category"}
ProductInDefaults ==
    [brand |-> None, stock |-> Num(0), tags |-> List(<<>>), sale_price |-> None]

\* Field(..., ge=0) on a field that may be absent or None
GeZero(body, k) ==
    k \in DOMAIN body => (isNone(body[k]) \/ body[k][2] >= 0)

ProductInValid(body) ==
    /\ ProductInRequired \subseteq DOMAIN body
    /\ GeZero(body, "price")
    /\ GeZero(body, "stock")
    /\ GeZero(body, "sale_price")

model_dump(body, required, defaults) ==
    [k \in required \cup DOMAIN defaults |->
        IF k \in DOMAIN body THEN body[k] ELSE defaults[k]]

ProductIn(body) == model_dump(body, ProductInRequired, ProductInDefaults)

\* response_model=ProductOut keeps the declared fields of the returned dict
ProductOutFields == ProductInRequired \cup DOMAIN ProductInDefaults \cup {"id"}
ProductOut(d) == [k \in DOMAIN d \cap ProductOutFields |-> d[k]]

OrderItemRequired == {"product_id", "name", "price", "quantity"}
OrderItemDefaults == [image |-> None, options |-> None]
OrderItemValid(item) ==
    /\ OrderItemRequired \subseteq DOMAIN item
    /\ item["quantity"][2] >= 1
OrderItem(item) == model_dump(item, OrderItemRequired, OrderItemDefaults)

ShippingInfoRequired == {"full_name", "email"}
ShippingInfoDefaults == [phone |-> None]
ShippingInfo(s) == model_dump(s, ShippingInfoRequired, ShippingInfoDefaults)

PaymentInfoRequired == {"method"}
PaymentInfoDefaults == [status |-> Str("pending"), transaction_id |-> None]
PaymentInfo(p) == model_dump(p, PaymentInfoRequired, PaymentInfoDefaults)

OrderInRequired == {"items", "shipping", "payment"}
OrderInValid(body) ==
    /\ OrderInRequired \subseteq DOMAIN body
    /\ \A i \in 1..Len(body["items"][2]) : OrderItemValid(body["items"][2][i][2])
    /\ ShippingInfoRequired \subseteq DOMAIN body["shipping"][2]
    /\ PaymentInfoRequired \subseteq DOMAIN body["payment"][2]

OrderIn(body) ==
    [items |-> List([i \in 1..Len(body["items"][2]) |->
                        Dict(OrderItem(body["items"][2][i][2]))]),
     shipping |-> Dict(ShippingInfo(body["shipping"][2])),
     payment |-> Dict(PaymentInfo(body["payment"][2])),
     notes |-> DictGet(body, "notes", None)]

(***************************************************************************)
(* Schemas of src/backend/schemas.py: no numeric constraints, brand is     *)
(* required, rating is a field of the product body, and the order body     *)
(* carries the client's subtotal, shipping_cost, discount and total.       *)
(***************************************************************************)
backend_ProductInRequired == {"name", "brand", "category", "price"}
backend_ProductInDefaults ==
    [sale_price |-> None, stock |-> Num(0), tags |-> List(<<>>), rating |-> Num(0)]
backend_ProductInValid(body) == backend_ProductInRequired \subseteq DOMAIN body
backend_ProductIn(body) ==
    model_dump(body, backend_ProductInRequired, backend_ProductInDefaults)

backend_OrderItemDefaults == [image |-> None, selected_options |-> None]
backend_OrderItem(item) == model_dump(item, OrderItemRequired, backend_OrderItemDefaults)

backend_ShippingInfoRequired == {"full_name", "email", "phone", "method"}
backend_ShippingInfoDefaults == [city |-> None, country |-> None]
backend_ShippingInfo(s) ==
    model_dump(s, backend_ShippingInfoRequired, backend_ShippingInfoDefaults)

backend_OrderInRequired ==
    {"items", "shipping", "payment", "subtotal", "shipping_cost", "total"}
backend_OrderInValid(body) ==
    /\ backend_OrderInRequired \subseteq DOMAIN body
    /\ \A i \in 1..Len(body["items"][2]) :
          OrderItemRequired \subseteq DOMAIN body["items"][2][i][2]
    /\ backend_ShippingInfoRequired \subseteq DOMAIN body["shipping"][2]
    /\ PaymentInfoRequired \subseteq DOMAIN body["payment"][2]

backend_OrderIn(body) ==
    [items |-> List([i \in 1..Len(body["items"][2]) |->
                        Dict(backend_OrderItem(body["items"][2][i][2]))]),
     shipping |-> Dict(backend_ShippingInfo(body["shipping"][2])),
     payment |-> Dict(PaymentInfo(body["payment"][2])),
     subtotal |-> body["subtotal"],
     shipping_cost |-> body["shipping_cost"],
     discount |-> DictGet(body, "discount", Num(0)),
     total |-> body["total"]]

(***************************************************************************)
(* The database: a collection is the sequence of its documents in          *)
(* insertion order; insert_one assigns the next ObjectId.                  *)
(***************************************************************************)
\* as find_one, with a filter that every document matches
find_one_any(coll, oid) == IF Len(coll) > 0 THEN 1 ELSE 0

\* find_one({"_id": oid}): the position of the document, 0 when none matches
find_one(coll, oid) ==
    IF \E i \in 1..Len(coll) : coll[i]["_id"] = oid
    THEN CHOOSE i \in 1..Len(coll) : coll[i]["_id"] = oid
    ELSE 0

\* insert_one(data): data is stored under a fresh _id
insert_one(coll, data, n) == Append(coll, DictUpdate(data, [_id |-> Oid(n)]))

\* update_one / find_one_and_update with {"$set": fields} on position i
update_set(coll, i, fields) == [coll EXCEPT ![i] = DictUpdate(@, fields)]

\* database.create_document: stamps the missing timestamps and inserts
create_document(coll, data, n, t) ==
    insert_one(coll,
               DictUpdate([created_at |-> Datetime(t), updated_at |-> Datetime(t)], data),
               n)

(***************************************************************************)
(* Requests the clients send                                               *)
(***************************************************************************)
\* a body with every field of the model, valid for both revisions
FullProduct ==
    [name |-> Str("Tee"), brand |-> Str("Secret"), category |-> Str("Apparel"),
     price |-> Num(10), stock |-> Num(5), sale_price |-> Num(8),
     tags |-> List(<<Str("new")>>)]

\* the required fields of src/backend/schemas.py alone
BaseProduct ==
    [name |-> Str("Jeans"), brand |-> Str("Secret"),
     category |-> Str("Footwear"), price |-> Num(10)]

NoPriceProduct ==
    [name |-> Str("Jeans"), brand |-> Str("Secret"), category |-> Str("Footwear")]

\* a body both revisions accept, whose category is the empty string
EmptyCategoryProduct == DictUpdate(BaseProduct, [category |-> Str("")])

\* the full body, the required fields of src/main.py alone with a price of
\* 0, an empty category, a negative price, stock and sale_price, and a body
\* without price
ProductBodies ==
    { FullProduct,
      EmptyCategoryProduct,
      [name |-> Str("Cap"), category |-> Str("Apparel"), price |-> Num(0)],
      DictUpdate(BaseProduct, [price |-> Num(-1)]),
      DictUpdate(BaseProduct, [stock |-> Num(-1)]),
      DictUpdate(BaseProduct, [sale_price |-> Num(-1)]),
      NoPriceProduct }

BodyItem(p, q) ==
    Dict([product_id |-> Str("p1"), name |-> Str("Tee"),
          price |-> Num(p), quantity |-> Num(q)])

BaseOrder ==
    [shipping |-> Dict([full_name |-> Str("Ann"), email |-> Str("ann@example.com"),
                        phone |-> Str("555"), method |-> Str("express")]),
     payment |-> Dict([method |-> Str("cod")])]

ItemLists == { <<BodyItem(10, 2), BodyItem(5, 1)>>, <<BodyItem(10, 0)>> }

\* the totals a client may send along with the first list, whose items sum
\* to 25, and with the second: none, or a subtotal and total of t
ClientTotals == {0, 25}

OrderBodies ==
    { DictUpdate(BaseOrder, [items |-> List(its)]) : its \in ItemLists }
    \cup { DictUpdate(BaseOrder,
                      [items |-> List(<<BodyItem(10, 2), BodyItem(5, 1)>>),
                       subtotal |-> Num(t), shipping_cost |-> Num(0),
                       total |-> Num(t)]) : t \in ClientTotals }
    \cup { DictUpdate(BaseOrder,
                      [items |-> List(<<BodyItem(10, 0)>>), subtotal |-> Num(0),
                       shipping_cost |-> Num(0), total |-> Num(0)]) }

\* identifiers in a path: the first generated id, a well-formed id that no
\* document carries, a short string, and a string with a non-hex character
KnownIds == { OidHex(1) }
UnknownId == OidHex(255)
MalformedIds == { <<"a", "b", "c">>, [OidHex(1) EXCEPT ![OidLen] = "z"] }
IdStrings == KnownIds \cup {UnknownId} \cup MalformedIds

StatusValues == {"shipped", "anything"}

(***************************************************************************)
(* The response to the request in progress: the operation, the HTTP        *)
(* status, the body, the number of database calls the handler made, and    *)
(* the request.  Requests are served one at a time: a handler runs when no *)
(* response is pending, and Respond hands the response to the client.      *)
(***************************************************************************)
Response(op, status, body, dbcalls, req) ==
    [op |-> op, status |-> status, body |-> body, dbcalls |-> dbcalls, req |-> req]

NoResponse == Response("none", 0, EmptyDoc, 0, EmptyDoc)

NoScan == [params |-> <<>>, pages |-> <<>>, total |-> 0]

\* the seed operations: the startup handler and the administrative calls
SeedCallers == 1..MaxSeedCalls
Seeders == {0} \cup SeedCallers

\* a seed operation that has not begun: where it stands, the status it
\* answered with, whether a database call of it raised
NotSeeding == [pc |-> "idle", status |-> 0, raised |-> FALSE]

\* the process has started and serves requests; no seed call is under way
Init ==
    /\ phase = "serving"
    /\ seeder = [p \in Seeders |-> NotSeeding]
    /\ app \in {"main", "backend"}
    /\ product = <<>>
    /\ order = <<>>
    /\ nextOid = 1
    /\ now = 0
    /\ writes = 0
    /\ resp = NoResponse
    /\ scan = NoScan

\* datetime.now() is read by the handlers; time passes between requests
Tick ==
    /\ now < MaxClock
    /\ now' = now + 1
    /\ UNCHANGED <<app, product, order, nextOid, writes, resp, scan, phase, seeder>>

\* a handler of src/main.py, or of src/backend/main.py, serves a request
Idle == resp = NoResponse
Serving == phase = "serving" /\ UNCHANGED <<phase, seeder>>
Main == app = "main" /\ Serving /\ UNCHANGED <<app, now>>
Backend == app = "backend" /\ Serving /\ UNCHANGED <<app, now>>

\* the client is done with the response; a listing it does not continue
\* with the next page ends its scan
Respond ==
    /\ resp /= NoResponse
    /\ resp' = NoResponse
    /\ scan' = NoScan
    /\ UNCHANGED <<app, product, order, nextOid, now, writes, phase, seeder>>

\* the request changes the database / leaves it as it is
Written == writes < MaxWrites /\ writes' = writes + 1
NotWritten == UNCHANGED <<product, order, nextOid, writes>>

(***************************************************************************)
(* src/main.py: products                                                   *)
(***************************************************************************)
get_product(product_id) ==
    /\ Main
    /\ Idle
    /\ NotWritten
    /\ LET r == to_object_id(product_id)
           i == find_one(product, r.oid)
           req == [product_id |-> product_id]
       IN resp' = IF ~r.ok THEN Response("get_product", 400, EmptyDoc, 0, req)
                  ELSE IF i = 0 THEN Response("get_product", 404, EmptyDoc, 1, req)
                  ELSE Response("get_product", 200,
                                ProductOut(serialize_doc(product[i])), 1, req)
    /\ scan' = NoScan

create_product(body) ==
    /\ Main
    /\ Idle
    /\ LET req == [body |-> body]
           data == DictUpdate(ProductIn(body),
                              [created_at |-> Datetime(now),
                               updated_at |-> Datetime(now),
                               rating |-> Dict([average |-> Num(0), count |-> Num(0)])])
           coll == insert_one(product, data, nextOid)
       IN IF ~ProductInValid(body)
          THEN /\ resp' = Response("create_product", 422, EmptyDoc, 0, req)
               /\ NotWritten
          ELSE /\ Written
               /\ product' = coll
               /\ nextOid' = nextOid + 1
               /\ resp' = Response("create_product", 200,
                                   ProductOut(serialize_doc(coll[Len(coll)])), 2, req)
               /\ UNCHANGED order
    /\ scan' = NoScan

\* as update_data, with model_dump(exclude_unset=True): the fields the
\* client omitted are not written
update_data_unset(body, t) ==
    DictUpdate([k \in DOMAIN body \cap DOMAIN ProductIn(body) |-> body[k]],
               [updated_at |-> Datetime(t)])

\* data = product.model_dump(); data["updated_at"] = now
update_data(body, t) == DictUpdate(ProductIn(body), [updated_at |-> Datetime(t)])

update_product(product_id, body) ==
    /\ Main
    /\ Idle
    /\ LET req == [product_id |-> product_id, body |-> body]
           r == to_object_id(product_id)
           i == find_one(product, r.oid)
           data == update_data(body, now)
       IN IF ~ProductInValid(body)
          THEN /\ resp' = Response("update_product", 422, EmptyDoc, 0, req)
               /\ NotWritten
          ELSE IF ~r.ok
          THEN /\ resp' = Response("update_product", 400, EmptyDoc, 0, req)
               /\ NotWritten
          ELSE IF i = 0
          THEN /\ resp' = Response("update_product", 404, EmptyDoc, 1, req)
               /\ NotWritten
          ELSE /\ Written
               /\ product' = update_set(product, i, data)
               /\ resp' = Response("update_product", 200,
                                   ProductOut(serialize_doc(product'[i])), 2, req)
               /\ UNCHANGED <<order, nextOid>>
    /\ scan' = NoScan

(***************************************************************************)
(* src/main.py: orders                                                     *)
(***************************************************************************)
RECURSIVE SumItems(_)
\* sum(item.price * item.quantity for item in items)
SumItems(items) ==
    IF items = <<>> THEN 0
    ELSE items[1][2]["price"][2] * items[1][2]["quantity"][2] + SumItems(Tail(items))

\* clock instants in one second
TicksPerSecond == 2

\* now.strftime('%Y%m%d%H%M%S'): the instant cut to whole seconds
strftime(t) == t \div TicksPerSecond

order_number_of(t) == <<"str", "ORD-", strftime(t)>>

create_order(body) ==
    /\ Main
    /\ Idle
    /\ LET req == [body |-> body]
           total_amount == SumItems(OrderIn(body)["items"][2])
           data == DictUpdate(OrderIn(body),
                              [order_number |-> order_number_of(now),
                               total_amount |-> Num(total_amount),
                               status |-> Str("pending"),
                               created_at |-> Datetime(now),
                               updated_at |-> Datetime(now)])
       IN IF ~OrderInValid(body)
          THEN /\ resp' = Response("create_order", 422, EmptyDoc, 0, req)
               /\ NotWritten
          ELSE /\ Written
               /\ order' = insert_one(order, data, nextOid)
               /\ nextOid' = nextOid + 1
               /\ resp' = Response("create_order", 200,
                                   [id |-> StrOid(Oid(nextOid)),
                                    order_number |-> order_number_of(now),
                                    total_amount |-> Num(total_amount),
                                    status |-> Str("pending"),
                                    created_at |-> isoformat(Datetime(now))],
                                   1, req)
               /\ UNCHANGED product
    /\ scan' = NoScan

get_order(order_id) ==
    /\ Main
    /\ Idle
    /\ NotWritten
    /\ LET r == to_object_id(order_id)
           i == find_one(order, r.oid)
           req == [order_id |-> order_id]
       IN resp' = IF ~r.ok THEN Response("get_order", 400, EmptyDoc, 0, req)
                  ELSE IF i = 0 THEN Response("get_order", 404, EmptyDoc, 1, req)
                  ELSE Response("get_order", 200, serialize_doc(order[i]), 1, req)
    /\ scan' = NoScan

\* as status_data, stamping created_at as well
status_data_created(status, t) ==
    [status |-> Str(status), updated_at |-> Datetime(t), created_at |-> Datetime(t)]

\* {"status": status, "updated_at": now}
status_data(status, t) == [status |-> Str(status), updated_at |-> Datetime(t)]

update_order_status(order_id, status) ==
    /\ Main
    /\ Idle
    /\ LET req == [order_id |-> order_id, status |-> status]
           r == to_object_id(order_id)
           i == find_one(order, r.oid)
       IN IF ~r.ok
          THEN /\ resp' = Response("update_order_status", 400, EmptyDoc, 0, req)
               /\ NotWritten
          ELSE IF i = 0
          THEN /\ resp' = Response("update_order_status", 404, EmptyDoc, 1, req)
               /\ NotWritten
          ELSE /\ Written
               /\ order' = update_set(order, i, status_data(status, now))
               /\ resp' = Response("update_order_status", 200,
                                   [id |-> <<"str", "hex", order_id>>,
                                    status |-> Str(status)],
                                   1, req)
               /\ UNCHANGED <<product, nextOid>>
    /\ scan' = NoScan

(***************************************************************************)
(* src/main.py: product listing.  Of the filter the model keeps category   *)
(* and the price range; the free-text regex q is left absent.              *)
(***************************************************************************)
MaxLimit == 60

Matches(doc, category, min_price, max_price) ==
    /\ isNone(category) \/ doc["category"] = category
    /\ isNone(min_price) \/ doc["price"][2] >= min_price[2]
    /\ isNone(max_price) \/ doc["price"][2] <= max_price[2]

\* the positions of the documents that db.product.find(filter_q) yields
Find(coll, category, min_price, max_price) ==
    { i \in 1..Len(coll) : Matches(coll[i], category, min_price, max_price) }

\* the sort tuple as a key to order by ascending; 0 when there is none
SortKey(doc, sort) ==
    IF sort = "price_asc" THEN doc["price"][2]
    ELSE IF sort = "price_desc" THEN 0 - doc["price"][2]
    ELSE IF sort = "new" THEN 0 - doc["created_at"][2]
    ELSE IF sort = "popular" THEN 0 - doc["rating"][2]["count"][2]
    ELSE 0

RECURSIVE NaturalOrder(_)
\* without a sort the cursor yields the documents in insertion order
NaturalOrder(S) ==
    IF S = {} THEN <<>>
    ELSE LET m == CHOOSE x \in S : \A y \in S : x <= y
         IN <<m>> \o NaturalOrder(S \ {m})

RECURSIVE SortedOrders(_, _, _)
\* cursor.sort: every order of the positions S that ascends in the key.
\* MongoDB leaves the order of documents with equal keys unspecified, and
\* it may differ from one query to the next.
SortedOrders(coll, S, sort) ==
    IF S = {} THEN {<<>>}
    ELSE UNION { { <<m>> \o t : t \in SortedOrders(coll, S \ {m}, sort) } :
                 m \in { x \in S : \A y \in S :
                            SortKey(coll[x], sort) <= SortKey(coll[y], sort) } }

SortNames == {"price_asc", "price_desc", "new", "popular"}

CursorOrders(coll, S, sort) ==
    IF sort \in SortNames THEN SortedOrders(coll, S, sort) ELSE {NaturalOrder(S)}

Min(a, b) == IF a <= b THEN a ELSE b

\* cursor.skip((page - 1) * limit).limit(limit)
SkipLimit(seq, page, limit) ==
    SubSeq(seq, (page - 1) * limit + 1, Min(page * limit, Len(seq)))

\* the pages a client has fetched in a row since page 1, under one filter,
\* sort and limit
ScanAfter(params, page, ids, total) ==
    IF page = 1 THEN [params |-> params, pages |-> <<ids>>, total |-> total]
    ELSE IF scan.params = params /\ page = Len(scan.pages) + 1 /\ scan.total = total
    THEN [scan EXCEPT !.pages = Append(@, ids)]
    ELSE NoScan

\* the request asks for the page after the one just received
Continues(params, page) ==
    /\ resp.op = "list_products"
    /\ resp.status = 200
    /\ scan.params = params
    /\ page = Len(scan.pages) + 1

list_products(category, min_price, max_price, sort, page, limit) ==
    /\ Main
    /\ Idle \/ Continues(<<category, min_price, max_price, sort, limit>>, page)
    /\ NotWritten
    /\ LET req == [category |-> category, min_price |-> min_price,
                   max_price |-> max_price, sort |-> sort,
                   page |-> page, limit |-> limit]
           found == Find(product, category, min_price, max_price)
           total == Cardinality(found)
       IN IF \/ ~isNone(min_price) /\ min_price[2] < 0
             \/ ~isNone(max_price) /\ max_price[2] < 0
             \/ page < 1 \/ limit < 1 \/ limit > MaxLimit
          THEN /\ resp' = Response("list_products", 422, EmptyDoc, 0, req)
               /\ scan' = NoScan
          ELSE \E sorted \in CursorOrders(product, found, sort) :
                 LET ps == SkipLimit(sorted, page, limit)
                     items == [j \in 1..Len(ps) |-> Dict(serialize_doc(product[ps[j]]))]
                 IN /\ resp' = Response("list_products", 200,
                                        [items |-> List(items), page |-> Num(page),
                                         limit |-> Num(limit), total |-> Num(total)],
                                        2, req)
                    /\ scan' = ScanAfter(<<category, min_price, max_price, sort, limit>>,
                                         page,
                                         [j \in 1..Len(items) |-> items[j][2]["id"]],
                                         total)

(***************************************************************************)
(* src/main.py: seeding.  Money is in cents, a rating average in tenths.   *)
(***************************************************************************)
SampleProduct(name, brand, price, category, stock, tags, average, count, t) ==
    [name |-> Str(name), brand |-> Str(brand), price |-> Num(price),
     category |-> Str(category), stock |-> Num(stock), tags |-> List(tags),
     created_at |-> Datetime(t), updated_at |-> Datetime(t),
     rating |-> Dict([average |-> Num(average), count |-> Num(count)])]

sample(t) ==
    << DictUpdate(SampleProduct("Classic Tee", "Secret", 2999, "Apparel", 42,
                                <<Str("bestseller"), Str("new")>>, 46, 120, t),
                  [sale_price |-> Num(2499)]),
       SampleProduct("Everyday Jeans", "Secret", 5900, "Apparel", 18,
                     <<Str("denim")>>, 43, 80, t),
       DictUpdate(SampleProduct("Minimal Sneakers", "Secret", 7900, "Footwear", 25,
                                <<Str("sneakers"), Str("minimal")>>, 48, 200, t),
                  [sale_price |-> Num(6900)]),
       SampleProduct("No. 7 Eau de Parfum", "Secret Scents", 11000, "Fragrance", 12,
                     <<Str("perfume"), Str("fragrance")>>, 49, 310, t) >>

RECURSIVE insert_many(_, _, _)
insert_many(coll, docs, n) ==
    IF docs = <<>> THEN coll
    ELSE insert_many(insert_one(coll, docs[1], n), Tail(docs), n + 1)

seed_products ==
    /\ Main
    /\ Idle
    /\ IF Len(product) > 0
       THEN /\ resp' = Response("seed", 200,
                                [message |-> Str("Products already seeded")],
                                1, EmptyDoc)
            /\ NotWritten
       ELSE /\ Written
            /\ UNCHANGED order
            /\ product' = insert_many(product, sample(now), nextOid)
            /\ nextOid' = nextOid + Len(sample(now))
            /\ resp' = Response("seed", 200,
                                [message |-> Str("Seeded sample products"),
                                 count |-> Num(Len(sample(now)))],
                                2, EmptyDoc)
    /\ scan' = NoScan

(***************************************************************************)
(* src/backend/main.py                                                     *)
(***************************************************************************)
to_product_out(doc) ==
    [id |-> StrOid(doc["_id"]),
     name |-> doc["name"],
     brand |-> DictGet(doc, "brand", Str("")),
     category |-> DictGet(doc, "category", Str("")),
     price |-> DictGet(doc, "price", Num(0)),
     sale_price |-> DictGet(doc, "sale_price", None),
     stock |-> DictGet(doc, "stock", Num(0)),
     tags |-> DictGet(doc, "tags", List(<<>>)),
     rating |-> DictGet(doc, "rating", Num(0)),
     created_at |-> doc["created_at"],
     updated_at |-> doc["updated_at"]]

\* ObjectId(id) raises InvalidId, which no handler here catches: a 500
backend_get_product(id) ==
    /\ Backend
    /\ Idle
    /\ LET req == [id |-> id]
           i == find_one(product, ObjectId(id))
       IN resp' = IF ~ObjectIdValid(id)
                  THEN Response("get_product", 500, EmptyDoc, 0, req)
                  ELSE IF i = 0 THEN Response("get_product", 404, EmptyDoc, 1, req)
                  ELSE Response("get_product", 200, to_product_out(product[i]), 1, req)
    /\ NotWritten
    /\ scan' = NoScan

backend_create_product(body) ==
    /\ Backend
    /\ Idle
    /\ LET req == [body |-> body]
           data == DictUpdate(backend_ProductIn(body),
                              [created_at |-> Datetime(now),
                               updated_at |-> Datetime(now)])
           coll == create_document(product, data, nextOid, now)
       IN IF ~backend_ProductInValid(body)
          THEN /\ resp' = Response("create_product", 422, EmptyDoc, 0, req)
               /\ NotWritten
          ELSE /\ Written
               /\ UNCHANGED order
               /\ product' = coll
               /\ nextOid' = nextOid + 1
               /\ resp' = Response("create_product", 200,
                                   to_product_out(coll[Len(coll)]), 2, req)
    /\ scan' = NoScan

\* {**p.dict(), "updated_at": now}
backend_update_data(body, t) ==
    DictUpdate(backend_ProductIn(body), [updated_at |-> Datetime(t)])

backend_update_product(id, body) ==
    /\ Backend
    /\ Idle
    /\ LET req == [id |-> id, body |-> body]
           i == find_one(product, ObjectId(id))
           update == backend_update_data(body, now)
       IN IF ~backend_ProductInValid(body)
          THEN /\ resp' = Response("update_product", 422, EmptyDoc, 0, req)
               /\ NotWritten
          ELSE IF ~ObjectIdValid(id)
          THEN /\ resp' = Response("update_product", 500, EmptyDoc, 0, req)
               /\ NotWritten
          ELSE IF i = 0
          THEN /\ resp' = Response("update_product", 404, EmptyDoc, 1, req)
               /\ NotWritten
          ELSE /\ Written
               /\ UNCHANGED <<order, nextOid>>
               /\ product' = update_set(product, i, update)
               /\ resp' = Response("update_product", 200,
                                   to_product_out(product'[i]), 1, req)
    /\ scan' = NoScan

backend_create_order(body) ==
    /\ Backend
    /\ Idle
    /\ LET req == [body |-> body]
           doc == DictUpdate(backend_OrderIn(body),
                             [status |-> Str("received"),
                              created_at |-> Datetime(now),
                              updated_at |-> Datetime(now)])
           coll == create_document(order, doc, nextOid, now)
           inserted == coll[Len(coll)]
       IN IF ~backend_OrderInValid(body)
          THEN /\ resp' = Response("create_order", 422, EmptyDoc, 0, req)
               /\ NotWritten
          ELSE /\ Written
               /\ UNCHANGED product
               /\ order' = coll
               /\ nextOid' = nextOid + 1
               /\ resp' = Response("create_order", 200,
                                   DictUpdate(backend_OrderIn(body),
                                              [id |-> StrOid(inserted["_id"]),
                                               status |-> Str("received"),
                                               created_at |-> inserted["created_at"],
                                               updated_at |-> inserted["updated_at"]]),
                                   2, req)
    /\ scan' = NoScan

\* the OrderOut built from a stored order
backend_OrderOut(d) ==
    [id |-> StrOid(d["_id"]),
     items |-> DictGet(d, "items", List(<<>>)),
     shipping |-> DictGet(d, "shipping", None),
     payment |-> DictGet(d, "payment", None),
     subtotal |-> DictGet(d, "subtotal", Num(0)),
     shipping_cost |-> DictGet(d, "shipping_cost", Num(0)),
     discount |-> DictGet(d, "discount", Num(0)),
     total |-> DictGet(d, "total", Num(0)),
     status |-> DictGet(d, "status", Str("received")),
     created_at |-> DictGet(d, "created_at", Datetime(now)),
     updated_at |-> DictGet(d, "updated_at", Datetime(now))]

backend_update_order_status(id, status) ==
    /\ Backend
    /\ Idle
    /\ LET req == [id |-> id, status |-> status]
           i == find_one(order, ObjectId(id))
       IN IF ~ObjectIdValid(id)
          THEN /\ resp' = Response("update_order_status", 500, EmptyDoc, 0, req)
               /\ NotWritten
          ELSE IF i = 0
          THEN /\ resp' = Response("update_order_status", 404, EmptyDoc, 1, req)
               /\ NotWritten
          ELSE /\ Written
               /\ UNCHANGED <<product, nextOid>>
               /\ order' = update_set(order, i, status_data(status, now))
               /\ resp' = Response("update_order_status", 200,
                                   backend_OrderOut(order'[i]), 1, req)
    /\ scan' = NoScan

\* this revision sorts by the flat rating and knows other sort names
backend_SortKey(doc, sort) ==
    IF sort = "price_asc" THEN doc["price"][2]
    ELSE IF sort = "price_desc" THEN 0 - doc["price"][2]
    ELSE IF sort = "newest" THEN 0 - doc["created_at"][2]
    ELSE IF sort = "rating" THEN 0 - doc["rating"][2]
    ELSE 0

RECURSIVE backend_SortedOrders(_, _, _)
backend_SortedOrders(coll, S, sort) ==
    IF S = {} THEN {<<>>}
    ELSE UNION { { <<m>> \o t : t \in backend_SortedOrders(coll, S \ {m}, sort) } :
                 m \in { x \in S : \A y \in S :
                   backend_SortKey(coll[x], sort) <= backend_SortKey(coll[y], sort) } }

backend_SortNames == {"price_asc", "price_desc", "newest", "rating"}

\* The handler declares category, q, sort and limit only: min_price,
\* max_price and page of the request are ignored, limit is unchecked and
\* cursor.limit(0) means no limit.  Whether the driver's cursor has
\* to_list depends on the installed driver; where it has, awaiting the
\* list it returns raises TypeError.
backend_list_products(category, min_price, max_price, sort, page, limit) ==
    /\ Backend
    /\ Idle
    /\ LET req == [category |-> category, min_price |-> min_price,
                   max_price |-> max_price, sort |-> sort,
                   page |-> page, limit |-> limit]
           found == Find(product, category, None, None)
           orders == IF sort \in backend_SortNames
                     THEN backend_SortedOrders(product, found, sort)
                     ELSE {NaturalOrder(found)}
       IN \E has_to_list \in BOOLEAN :
            IF has_to_list
            THEN resp' = Response("list_products", 500, EmptyDoc, 1, req)
            ELSE \E sorted \in orders :
                   LET ps == IF limit = 0 THEN sorted
                             ELSE SubSeq(sorted, 1, Min(limit, Len(sorted)))
                   IN resp' = Response("list_products", 200,
                                       [j \in 1..Len(ps) |-> to_product_out(product[ps[j]])],
                                       1, req)
    /\ scan' = NoScan
    /\ NotWritten

backend_SampleProduct(name, price, sale_price, category, stock, tags, rating) ==
    [name |-> Str(name), brand |-> Str("Secret Closet"), category |-> Str(category),
     price |-> Num(price), sale_price |-> Num(sale_price), stock |-> Num(stock),
     tags |-> List(tags), rating |-> Num(rating)]

SAMPLE_PRODUCTS ==
    << backend_SampleProduct("Essential Cotton Tee", 2499, 1999, "Apparel", 120,
                             <<Str("tee"), Str("cotton"), Str("everyday")>>, 45),
       backend_SampleProduct("Slim Fit Denim Jeans", 5999, 4999, "Apparel", 80,
                             <<Str("jeans"), Str("denim")>>, 46),
       backend_SampleProduct("Classic White Sneakers", 7999, 6499, "Footwear", 60,
                             <<Str("sneakers"), Str("footwear")>>, 47),
       backend_SampleProduct("Signature Eau de Parfum", 9999, 7999, "Fragrance", 40,
                             <<Str("perfume"), Str("fragrance")>>, 48) >>

RECURSIVE backend_seed_loop(_, _, _, _)
\* for p in SAMPLE_PRODUCTS: create_document("product", {**p, timestamps})
backend_seed_loop(coll, docs, n, t) ==
    IF docs = <<>> THEN coll
    ELSE backend_seed_loop(
             create_document(coll,
                             DictUpdate(docs[1], [created_at |-> Datetime(t),
                                                  updated_at |-> Datetime(t)]),
                             n, t),
             Tail(docs), n + 1, t)

backend_seed ==
    /\ Backend
    /\ Idle
    /\ IF Len(product) = 0
       THEN /\ Written
            /\ UNCHANGED order
            /\ product' = backend_seed_loop(product, SAMPLE_PRODUCTS, nextOid, now)
            /\ nextOid' = nextOid + Len(SAMPLE_PRODUCTS)
            /\ resp' = Response("seed", 200,
                                [seeded |-> TRUE, count |-> Num(Len(SAMPLE_PRODUCTS))],
                                1 + 2 * Len(SAMPLE_PRODUCTS), EmptyDoc)
       ELSE /\ resp' = Response("seed", 200,
                                [seeded |-> FALSE, count |-> Num(Len(product))],
                                2, EmptyDoc)
            /\ NotWritten
    /\ scan' = NoScan

(***************************************************************************)
(* Categories                                                              *)
(***************************************************************************)
\* the category strings of the requests and of the samples, in the
\* ascending order of Python's and MongoDB's string comparison
StringOrder == <<"", "Apparel", "Footwear", "Fragrance">>
StrRank(v) == CHOOSE i \in 1..Len(StringOrder) : StringOrder[i] = v[2]

\* sorted(values): the values in ascending order
RECURSIVE sorted(_)
sorted(S) ==
    IF S = {} THEN <<>>
    ELSE LET m == CHOOSE x \in S : \A y \in S : StrRank(x) <= StrRank(y)
         IN <<m>> \o sorted(S \ {m})

\* db.product.distinct("category")
distinct(coll, k) == { coll[i][k] : i \in { j \in 1..Len(coll) : k \in DOMAIN coll[j] } }

\* src/main.py: sorted([c for c in cats if isinstance(c, str)])
get_categories ==
    /\ Main
    /\ Idle
    /\ NotWritten
    /\ LET cats == distinct(product, "category")
       IN resp' = Response("get_categories", 200,
                           List(sorted({ c \in cats : isStr(c) })), 1, EmptyDoc)
    /\ scan' = NoScan

\* d.get("_id"): the group key is neither None nor the empty string
Truthy(v) == isStr(v) /\ v /= Str("")

\* src/backend/main.py: $group on category, $sort on the group key, and the
\* keys that are truthy
backend_get_categories ==
    /\ Backend
    /\ Idle
    /\ NotWritten
    /\ LET groups == distinct(product, "category")
           keys == sorted({ c \in groups : isStr(c) })
       IN resp' = Response("get_categories", 200,
                           List(SelectSeq(keys, Truthy)), 1, EmptyDoc)
    /\ scan' = NoScan

(***************************************************************************)
(* The system                                                              *)
(***************************************************************************)
\* update requests: on the first id the bodies but those with a negative
\* stock or sale_price, on the other ids a valid body, and on the id that
\* no document carries the body without price
UpdateRequests ==
    { <<OidHex(1), body>> :
        body \in { b \in ProductBodies :
                     \A k \in {"stock", "sale_price"} : k \in DOMAIN b => b[k][2] >= 0 } }
    \cup { <<id, FullProduct>> : id \in IdStrings }
    \cup { <<UnknownId, NoPriceProduct>> }

StatusRequests ==
    { <<OidHex(1), status>> : status \in StatusValues }
    \cup { <<id, "shipped">> : id \in IdStrings }

ListRequest(category, min_price, max_price, sort, page, limit) ==
    [category |-> category, min_price |-> min_price, max_price |-> max_price,
     sort |-> sort, page |-> page, limit |-> limit]

\* the sort names of both revisions, and none
SortInputs == {"none"} \cup SortNames \cup backend_SortNames

\* listing requests: the plain and the price-sorted listing paged through
\* one item a page, every sort on a first page of two, the price ranges
\* with and without a category, and the requests the query validation of
\* src/main.py refuses
ListRequests ==
    { ListRequest(None, None, None, s, p, 1) :
        s \in {"none", "price_asc"}, p \in 1..MaxPage }
    \cup { ListRequest(None, None, None, s, 1, 2) : s \in SortInputs }
    \cup { ListRequest(c, r[1], r[2], "none", 1, 2) :
             c \in {None, Str("Apparel")},
             r \in { <<Num(10), None>>, <<None, Num(10)>>, <<Num(10), Num(2999)>> } }
    \cup { ListRequest(None, Num(-1), None, "none", 1, 2),
           ListRequest(None, None, Num(-1), "none", 1, 2),
           ListRequest(None, None, None, "none", 0, 2),
           ListRequest(None, None, None, "none", 1, 0),
           ListRequest(None, None, None, "none", 1, MaxLimit + 1) }

Next ==
    \/ Tick
    \/ Respond
    \/ \E id \in IdStrings : get_product(id)
    \/ \E body \in ProductBodies : create_product(body)
    \/ \E u \in UpdateRequests : update_product(u[1], u[2])
    \/ \E body \in OrderBodies : create_order(body)
    \/ \E id \in IdStrings : get_order(id)
    \/ \E u \in StatusRequests : update_order_status(u[1], u[2])
    \/ \E q \in ListRequests :
          list_products(q.category, q.min_price, q.max_price, q.sort, q.page, q.limit)
    \/ seed_products
    \/ get_categories
    \/ \E id \in IdStrings : backend_get_product(id)
    \/ \E body \in ProductBodies : backend_create_product(body)
    \/ \E u \in UpdateRequests : backend_update_product(u[1], u[2])
    \/ \E body \in OrderBodies : backend_create_order(body)
    \/ \E u \in StatusRequests : backend_update_order_status(u[1], u[2])
    \/ \E q \in ListRequests :
          backend_list_products(q.category, q.min_price, q.max_price, q.sort,
                                q.page, q.limit)
    \/ backend_seed
    \/ backend_get_categories

Spec == Init /\ [][Next]_vars

(***************************************************************************)
(* Seeding, database call by database call: the startup handler runs while *)
(* the process starts, the administrative calls while it serves.  The      *)
(* handlers of src/main.py are plain functions, which the framework runs   *)
(* on a thread pool: the database calls of two requests interleave.  The   *)
(* handlers of src/backend/main.py are coroutines that make blocking       *)
(* database calls and never await between them: a call runs from its       *)
(* first database call to its last before the event loop runs another.     *)
(* A database call may raise (the server is unreachable, times out).       *)
(***************************************************************************)
SeedInit ==
    /\ phase = "starting"
    /\ seeder = [p \in Seeders |-> NotSeeding]
    /\ app \in {"main", "backend"}
    /\ product = <<>>
    /\ order = <<>>
    /\ nextOid = 1
    /\ now = 0
    /\ writes = 0
    /\ resp = NoResponse
    /\ scan = NoScan

\* the seed operation p moves on to pc, or ends answering status
Seeding(p, pc) == [seeder EXCEPT ![p].pc = pc]
Seeded(p, status, raised) ==
    [seeder EXCEPT ![p] = [pc |-> "done", status |-> status, raised |-> raised]]

\* as startup_returns, without the except clause: what a database call
\* raised leaves the handler and startup fails
startup_propagates(raised) == IF raised THEN "crashed" ELSE "serving"

\* try: ... except Exception: pass -- the startup handler returns whether
\* or not a database call raised, and the process goes on to serve
startup_returns(raised) == "serving"

\* src/main.py ensure_seed_on_startup: db.product.count_documents({}) == 0
ensure_seed_on_startup_count ==
    /\ app = "main"
    /\ phase = "starting"
    /\ seeder[0].pc = "idle"
    /\ \E raised \in BOOLEAN :
          IF raised
          THEN seeder' = Seeded(0, 0, TRUE) /\ phase' = startup_returns(TRUE)
          ELSE IF Len(product) = 0
          THEN seeder' = Seeding(0, "insert") /\ phase' = phase
          ELSE seeder' = Seeded(0, 0, FALSE) /\ phase' = startup_returns(FALSE)
    /\ UNCHANGED <<app, product, order, nextOid, now, writes, resp, scan>>

\* src/main.py ensure_seed_on_startup: db.product.insert_many(sample)
ensure_seed_on_startup_insert ==
    /\ app = "main"
    /\ phase = "starting"
    /\ seeder[0].pc = "insert"
    /\ \E raised \in BOOLEAN :
          /\ seeder' = Seeded(0, 0, raised)
          /\ phase' = startup_returns(raised)
          /\ IF raised
             THEN UNCHANGED <<product, nextOid>>
             ELSE /\ product' = insert_many(product, sample(now), nextOid)
                  /\ nextOid' = nextOid + Len(sample(now))
    /\ UNCHANGED <<app, order, now, writes, resp, scan>>

\* src/main.py seed_products: db.product.count_documents({}) > 0; what the
\* call raises reaches the framework, which answers 500
seed_products_count(p) ==
    /\ app = "main"
    /\ phase = "serving"
    /\ seeder[p].pc = "idle"
    /\ \E raised \in BOOLEAN :
          seeder' = IF raised THEN Seeded(p, 500, TRUE)
                    ELSE IF Len(product) > 0 THEN Seeded(p, 200, FALSE)
                    ELSE Seeding(p, "insert")
    /\ UNCHANGED <<app, product, order, nextOid, now, writes, resp, scan, phase>>

\* src/main.py seed_products: db.product.insert_many(sample)
seed_products_insert(p) ==
    /\ app = "main"
    /\ phase = "serving"
    /\ seeder[p].pc = "insert"
    /\ \E raised \in BOOLEAN :
          IF raised
          THEN seeder' = Seeded(p, 500, TRUE) /\ UNCHANGED <<product, nextOid>>
          ELSE /\ seeder' = Seeded(p, 200, FALSE)
               /\ product' = insert_many(product, sample(now), nextOid)
               /\ nextOid' = nextOid + Len(sample(now))
    /\ UNCHANGED <<app, order, now, writes, resp, scan, phase>>

\* src/backend/main.py seed, from its first database call to its last: the
\* count, and on the empty collection one create_document a sample, of
\* which the first k have inserted when a call raises
backend_seed_run(raised) ==
    IF Len(product) = 0
    THEN \E k \in 0..Len(SAMPLE_PRODUCTS) :
            /\ ~raised => k = Len(SAMPLE_PRODUCTS)
            /\ product' = backend_seed_loop(product, SubSeq(SAMPLE_PRODUCTS, 1, k),
                                            nextOid, now)
            /\ nextOid' = nextOid + k
    ELSE UNCHANGED <<product, nextOid>>

\* src/backend/main.py startup_seed: try: await seed() except Exception: pass
backend_startup_seed ==
    /\ app = "backend"
    /\ phase = "starting"
    /\ seeder[0].pc = "idle"
    /\ \E raised \in BOOLEAN :
          /\ backend_seed_run(raised)
          /\ seeder' = Seeded(0, 0, raised)
          /\ phase' = startup_returns(raised)
    /\ UNCHANGED <<app, order, now, writes, resp, scan>>

\* src/backend/main.py seed, called on POST /api/admin/seed
backend_seed_call(p) ==
    /\ app = "backend"
    /\ phase = "serving"
    /\ seeder[p].pc = "idle"
    /\ \E raised \in BOOLEAN :
          /\ backend_seed_run(raised)
          /\ seeder' = Seeded(p, IF raised THEN 500 ELSE 200, raised)
    /\ UNCHANGED <<app, order, now, writes, resp, scan, phase>>

StartupStep ==
    \/ ensure_seed_on_startup_count
    \/ ensure_seed_on_startup_insert
    \/ backend_startup_seed

SeedNext ==
    \/ Tick
    \/ ensure_seed_on_startup_count
    \/ ensure_seed_on_startup_insert
    \/ \E p \in SeedCallers : seed_products_count(p)
    \/ \E p \in SeedCallers : seed_products_insert(p)
    \/ backend_startup_seed
    \/ \E p \in SeedCallers : backend_seed_call(p)

\* the startup handler is run to its end: every database call of it
\* returns or raises
SeedSpec == SeedInit /\ [][SeedNext]_vars /\ WF_vars(StartupStep)

(***************************************************************************)
(* Observations the properties are stated on                               *)
(***************************************************************************)
\* the identifier of the request a response answers
RequestId(r) ==
    IF "product_id" \in DOMAIN r.req THEN r.req["product_id"]
    ELSE IF "order_id" \in DOMAIN r.req THEN r.req["order_id"]
    ELSE r.req["id"]

TakesId(r) ==
    r.op \in {"get_product", "update_product", "get_order", "update_order_status"}

\* the total an order document records, whichever revision stored it
RecordedTotal(o) ==
    IF "total_amount" \in DOMAIN o THEN o["total_amount"][2] ELSE o["total"][2]

\* the products a listing response returns
ListedProducts(r) ==
    IF app = "main"
    THEN [j \in 1..Len(r.body["items"][2]) |-> r.body["items"][2][j][2]]
    ELSE r.body

RECURSIVE Concat(_)
Concat(pages) == IF pages = <<>> THEN <<>> ELSE pages[1] \o Concat(Tail(pages))

\* the scan has fetched pages 1..ceil(total/limit)
ScanComplete == scan /= NoScan /\ Len(scan.pages) * scan.params[5] >= scan.total

\* the ids of the products that match the filter of the scan
ScanMatching ==
    { StrOid(product[i]["_id"]) :
        i \in Find(product, scan.params[1], scan.params[2], scan.params[3]) }

SampleCount == IF app = "main" THEN Len(sample(0)) ELSE Len(SAMPLE_PRODUCTS)

(***************************************************************************)
(* Properties                                                              *)
(***************************************************************************)
\* C1: every stored order records, and every create-order response returns,
\* the sum over the order's items of price x quantity, whatever total the
\* client sent.
C1_TotalIsSumOfItems ==
    /\ \A i \in 1..Len(order) :
          RecordedTotal(order[i]) = SumItems(order[i]["items"][2])
    /\ (resp.op = "create_order" /\ resp.status = 200) =>
          RecordedTotal(resp.body) = SumItems(resp.req["body"]["items"][2])

\* C2: every stored product has price >= 0, stock >= 0 and, when it has a
\* sale_price, sale_price >= 0.
C2_ProductsNonNegative ==
    \A i \in 1..Len(product) :
       /\ product[i]["price"][2] >= 0
       /\ product[i]["stock"][2] >= 0
       /\ GeZero(product[i], "sale_price")

\* C3: a request whose identifier does not parse as a database identifier is
\* answered 400 and makes no database call.
C3_MalformedIdIs400 ==
    (TakesId(resp) /\ ~ObjectIdValid(RequestId(resp))) =>
        (resp.status = 400 /\ resp.dbcalls = 0)

\* the collection holds what one seed call put into the empty collection
SeededOnce == writes = 1 /\ Len(product) = SampleCount

\* C4: a seed call on the empty collection inserts the N samples; the seed
\* call that follows it inserts nothing and reports the existing count, N.
C4_SeedTwice ==
    [][(resp = NoResponse /\ resp'.op = "seed") =>
          /\ Len(product) = 0 => Len(product') = SampleCount
          /\ SeededOnce =>
                /\ product' = product
                /\ "count" \in DOMAIN resp'.body
                /\ resp'.body["count"] = Num(SampleCount)]_vars

\* C5: shaping a stored document twice gives what shaping it once gives,
\* the id included.
C5_ShapeIdempotent ==
    app = "main" =>
       /\ \A i \in 1..Len(product) :
             serialize_doc(serialize_doc(product[i])) = serialize_doc(product[i])
       /\ \A i \in 1..Len(order) :
             serialize_doc(serialize_doc(order[i])) = serialize_doc(order[i])

\* C6: the pages 1..ceil(total/limit) of a listing, fetched while the
\* collection does not change, hold exactly `total` products: every
\* matching product once.
C6_PagesPartition ==
    ScanComplete =>
       LET ids == Concat(scan.pages)
       IN /\ Len(ids) = scan.total
          /\ \A i, j \in 1..Len(ids) : i /= j => ids[i] /= ids[j]
          /\ { ids[i] : i \in 1..Len(ids) } = ScanMatching

\* the price bounds of the request are absent or not negative
ValidRange(req) ==
    /\ isNone(req["min_price"]) \/ req["min_price"][2] >= 0
    /\ isNone(req["max_price"]) \/ req["max_price"][2] >= 0

\* C10: every product of a listing page lies within the price bounds the
\* request gave.
C10_PriceRange ==
    (resp.op = "list_products" /\ resp.status = 200 /\ ValidRange(resp.req)) =>
       \A j \in 1..Len(ListedProducts(resp)) :
          LET price == ListedProducts(resp)[j]["price"][2]
          IN /\ isNone(resp.req["min_price"]) \/ price >= resp.req["min_price"][2]
             /\ isNone(resp.req["max_price"]) \/ price <= resp.req["max_price"][2]

\* a handler answers an update of a product or of an order's status
UpdateStep ==
    resp = NoResponse /\ resp'.op \in {"update_product", "update_order_status"}

\* the identifier of that request is well-formed and no document of the
\* collection it addresses carries it
UnmatchedId ==
    /\ ObjectIdValid(RequestId(resp'))
    /\ LET coll == IF resp'.op = "update_product" THEN product ELSE order
       IN \A i \in 1..Len(coll) : coll[i]["_id"] /= ObjectId(RequestId(resp'))

\* the body of an update_product request passes the validation of the
\* revision that serves it
UpdateBodyValid ==
    resp'.op = "update_product" =>
       IF app = "main" THEN ProductInValid(resp'.req["body"])
       ELSE backend_ProductInValid(resp'.req["body"])

\* C7 as stated: an update with a well-formed identifier that matches no
\* stored document is answered 404 and changes no collection.
C7_UnmatchedUpdateIs404 ==
    [][(UpdateStep /\ UnmatchedId) =>
          (resp'.status = 404 /\ product' = product /\ order' = order)]_vars

\* C7, amended: an update with a request that passes validation and a
\* well-formed identifier that matches no stored document is answered 404
\* and changes no collection.
C7_ValidUnmatchedUpdateIs404 ==
    [][(UpdateStep /\ UnmatchedId /\ UpdateBodyValid) =>
          (resp'.status = 404 /\ product' = product /\ order' = order)]_vars

C7_Witness == resp.op = "update_product" /\ resp.status = 404 /\ Len(product) > 0

\* the fields of the product body and their schema defaults
BodyFields ==
    IF app = "main" THEN ProductInRequired \cup DOMAIN ProductInDefaults
    ELSE backend_ProductInRequired \cup DOMAIN backend_ProductInDefaults
BodyDefault(k) ==
    IF app = "main" THEN ProductInDefaults[k] ELSE backend_ProductInDefaults[k]

\* C8: a successful product update writes every field of the body onto the
\* product it addresses, an omitted field as its schema default, stamps
\* updated_at with the current time, keeps created_at and the identifier,
\* and changes no other product.
C8_UpdateReplacesFields ==
    [][(resp = NoResponse /\ resp'.op = "update_product" /\ resp'.status = 200) =>
          LET oid == ObjectId(RequestId(resp'))
              body == resp'.req["body"]
          IN /\ Len(product') = Len(product)
             /\ \E i \in 1..Len(product) : product[i]["_id"] = oid
             /\ \A i \in 1..Len(product) :
                   IF product[i]["_id"] = oid
                   THEN /\ \A k \in BodyFields :
                              /\ k \in DOMAIN product'[i]
                              /\ product'[i][k] =
                                    IF k \in DOMAIN body THEN body[k] ELSE BodyDefault(k)
                        /\ DOMAIN product'[i] = DOMAIN product[i] \cup BodyFields
                        /\ product'[i]["updated_at"] = Datetime(now)
                        /\ product'[i]["created_at"] = product[i]["created_at"]
                        /\ product'[i]["_id"] = product[i]["_id"]
                   ELSE product'[i] = product[i]]_vars

C8_Witness ==
    /\ resp.op = "update_product" /\ resp.status = 200
    /\ "stock" \notin DOMAIN resp.req["body"]
    /\ Len(product) > 1
    /\ product[1]["updated_at"] /= product[1]["created_at"]
    /\ product[1]["stock"] = Num(0)

\* what of an order no operation changes after its creation
OrderFrame(o) == [k \in DOMAIN o \ {"status", "updated_at"} |-> o[k]]

\* C9: every step keeps every stored order but its status and updated_at,
\* and the step that changes an order is the successful status update of
\* that order.
C9_OrdersImmutable ==
    [][\A i \in 1..Len(order) :
          /\ i <= Len(order')
          /\ OrderFrame(order'[i]) = OrderFrame(order[i])
          /\ order'[i] /= order[i] =>
                /\ resp'.op = "update_order_status"
                /\ resp'.status = 200
                /\ ObjectIdValid(RequestId(resp'))
                /\ ObjectId(RequestId(resp')) = order[i]["_id"]]_vars

C9_Witness ==
    /\ resp.op = "update_order_status" /\ resp.status = 200
    /\ Len(order) > 0
    /\ order[1]["status"] = Str("anything")
    /\ order[1]["updated_at"] /= order[1]["created_at"]

\* the non-empty category strings of the stored products
StoredCategories ==
    { product[i]["category"] : i \in 1..Len(product) } \ {Str(""), None}

\* C11: the list the categories endpoint returns is in ascending order
\* without duplicates, holds no empty string, and holds exactly the
\* non-empty category strings of the stored products.
C11_CategoriesSortedDistinct ==
    (resp.op = "get_categories" /\ resp.status = 200) =>
       LET cats == resp.body[2]
       IN /\ \A i \in 1..Len(cats) : \A j \in 1..Len(cats) :
                i < j => StrRank(cats[i]) < StrRank(cats[j])
          /\ \A i \in 1..Len(cats) : cats[i] /= Str("")
          /\ { cats[i] : i \in 1..Len(cats) } = StoredCategories

\* the body gives a negative price, stock or sale_price
NegativeField(body) ==
    \E k \in {"price", "stock", "sale_price"} :
       k \in DOMAIN body /\ isNum(body[k]) /\ body[k][2] < 0

\* the body has the fields the revision requires and a price of 0
ZeroPriceBody(body) ==
    /\ (IF app = "main" THEN ProductInRequired ELSE backend_ProductInRequired)
          \subseteq DOMAIN body
    /\ body["price"] = Num(0)
    /\ ~NegativeField(body)

\* C12: a create-product request with a negative price, stock or sale_price
\* is answered with a client error, makes no database call and leaves the
\* product collection as it was; a request with the required fields and a
\* price of 0 succeeds and appends the product with that price.
C12_NegativeRejectedZeroAccepted ==
    [][(resp = NoResponse /\ resp'.op = "create_product") =>
          LET body == resp'.req["body"]
          IN /\ NegativeField(body) =>
                   /\ resp'.status \in 400..499
                   /\ resp'.dbcalls = 0
                   /\ product' = product
             /\ ZeroPriceBody(body) =>
                   /\ resp'.status = 200
                   /\ Len(product') = Len(product) + 1
                   /\ product'[Len(product')]["price"] = Num(0)]_vars

\* what the revision returns for a stored product
Shaped(d) == IF app = "main" THEN serialize_doc(d) ELSE to_product_out(d)

\* a nested map, or every map of a nested list, has in the shaped value s
\* the keys it has in the stored value v
NestedKeysKept(v, s) ==
    /\ isDict(v) => (isDict(s) /\ DOMAIN s[2] = DOMAIN v[2])
    /\ isList(v) =>
          /\ isList(s) /\ Len(s[2]) = Len(v[2])
          /\ \A j \in 1..Len(v[2]) :
                isDict(v[2][j]) =>
                   (isDict(s[2][j]) /\ DOMAIN s[2][j][2] = DOMAIN v[2][j][2])

ShapedWell(d, s) ==
    /\ "id" \in DOMAIN s /\ s["id"] = StrOid(d["_id"])
    /\ "_id" \notin DOMAIN s
    /\ \A k \in (DOMAIN d \cap DOMAIN s) \ {"_id", "id"} : NestedKeysKept(d[k], s[k])

\* C13: shaping a stored document gives a top-level id that is the string
\* of the stored identifier and no top-level _id, and every nested map,
\* directly nested or in a list, keeps exactly its own keys.
C13_ShapeKeepsNestedKeys ==
    /\ \A i \in 1..Len(product) : ShapedWell(product[i], Shaped(product[i]))
    /\ app = "main" =>
          \A i \in 1..Len(order) : ShapedWell(order[i], serialize_doc(order[i]))

\* C14: a database error in the startup seed, at the emptiness check or at
\* the insert, does not stop startup, and the process comes to serve
\* requests; an administrative seed call in which a database call raised
\* is answered with an error.
C14_StartupSwallowsSeedFailure ==
    /\ <>(phase = "serving")
    /\ [](phase /= "crashed")
    /\ [](\A p \in SeedCallers :
             (seeder[p].pc = "done" /\ seeder[p].raised) => seeder[p].status >= 500)

C14_Witness ==
    /\ phase = "serving"
    /\ seeder[0].pc = "done" /\ seeder[0].raised
    /\ Len(product) = 0
    /\ \E p \in SeedCallers :
          seeder[p].pc = "done" /\ seeder[p].raised /\ seeder[p].status = 500

\* every seed operation has ended / ended without a database call raising
AllSeedsDone == \A p \in Seeders : seeder[p].pc = "done"
NoSeedRaised == \A p \in Seeders : ~seeder[p].raised

\* C15: however the startup seed and the administrative seed calls
\* interleave from the empty collection, the collection never holds more
\* than the N samples, and holds exactly N once all have ended without a
\* database error.
C15_OneCopyOfSamples ==
    /\ Len(product) <= SampleCount
    /\ (AllSeedsDone /\ NoSeedRaised) => Len(product) = SampleCount

\* C16: any two distinct stored orders have distinct order numbers.
C16_OrderNumbersDistinct ==
    \A i \in 1..Len(order) : \A j \in 1..Len(order) :
       (i /= j /\ "order_number" \in DOMAIN order[i] /\ "order_number" \in DOMAIN order[j])
          => order[i]["order_number"] /= order[j]["order_number"]

====
